---- MODULE Spec2Model ----
(***************************************************************************)
(* NetGuard_AI: the anomaly detection pass (anomaly_detection.py), the two *)
(* upload/validation entry points (server.py analyze_traffic and           *)
(* data_upload.py handle_upload), the alert report endpoint (server.py     *)
(* send_alert_report) and the e-mail collaborator (alerting.py).           *)
(*                                                                         *)
(* Timestamps are whole hours since the epoch; traffic volumes and the     *)
(* forecast bounds are small naturals.  The two fitted library models      *)
(* (Prophet, IsolationForest) are chosen nondeterministically among the    *)
(* results the libraries can produce for the batch.                        *)
(***************************************************************************)
EXTENDS Integers, Sequences, FiniteSets, TLC

\* ------------------------------------------------------------------ bounds
\* Longest input table.
MaxRows == 3

\* Value domains of a Normalized Record.
Times == 0 .. 1
Cells == {"A", "B"}
Volumes == 0 .. 1

\* A prediction interval [yhat_lower, yhat_upper], yhat_lower <= yhat_upper.
Intervals == {iv \in [lower : Volumes, upper : Volumes] : iv.lower <= iv.upper}

\* IsolationForest.fit_predict labels: inlier +1, outlier -1.
IsoLabels == {1, -1}

\* df['hour'] = df['timestamp'].dt.hour
HourOf(ts) == ts % 24

\* df['day_of_week'] = df['timestamp'].dt.dayofweek (hour 0 is a Thursday = 3)
DayOfWeekOf(ts) == ((ts \div 24) + 3) % 7

\* A row of the table preprocess_data returns.
NormalizedRecord(ts, cell, volume) ==
    [timestamp |-> ts, cell_id |-> cell, traffic_volume |-> volume,
     hour |-> HourOf(ts), day_of_week |-> DayOfWeekOf(ts)]

NormalizedRecords == {NormalizedRecord(t, c, v) : t \in Times, c \in Cells, v \in Volumes}

RECURSIVE SeqsUpTo(_, _)
SeqsUpTo(S, n) ==
    IF n = 0 THEN {<<>>}
    ELSE LET shorter == SeqsUpTo(S, n - 1)
         IN shorter \cup {Append(s, x) : s \in {t \in shorter : Len(t) = n - 1}, x \in S}

Tables == SeqsUpTo(NormalizedRecords, MaxRows)

\* ------------------------------------------------------------------- state
VARIABLES
    pc,                \* position of the running entry point
    caller,            \* the entry point that is running
    \* detect_anomalies
    df,                \* the working table of detect_anomalies (its rows)
    model,             \* the fitted Prophet model: timestamp -> interval
    forecast,          \* model.predict(prophet_df), one interval per position
    yhat_lower,        \* df['yhat_lower']
    yhat_upper,        \* df['yhat_upper']
    temporal_anomaly,  \* df['temporal_anomaly']
    iso_anomaly,       \* df['iso_anomaly']
    anomalies_df,      \* the positions in df of the rows kept by the filter
    anomaly_list,      \* the records built so far / returned
    \* analyze_traffic, handle_upload and app.py
    file,              \* the uploaded file
    columns,           \* df.columns of the entry point's table
    processed_df,      \* the table preprocess_data returned
    calls,             \* which of preprocess_data / detect_anomalies were called
    response,          \* the HTTP response of the endpoint
    exception,         \* the exception that is propagating, if any
    upload_result,     \* what handle_upload returned
    st_errors,         \* number of st.error messages shown
    \* send_alert_report
    data,              \* request.get_json()
    attempt,           \* the loop variable i of the retry loop
    fetches,           \* requests.get calls made
    sleeps,            \* time.sleep calls made
    live_alerts,       \* the fetched alert list
    \* send_email_alert
    recipient_email,   \* its first argument
    anomalies,         \* its second argument
    token,             \* the state of token.json
    email_calls,       \* calls of send_email_alert
    creds_requests,    \* calls of get_credentials
    messages_built,    \* messages composed
    messages_sent,     \* messages handed to the Gmail API
    email_sent         \* what send_email_alert returned

detectVars == <<df, model, forecast, yhat_lower, yhat_upper, temporal_anomaly,
                iso_anomaly, anomalies_df, anomaly_list>>

entryVars == <<file, columns, processed_df, calls, upload_result, st_errors>>

reportVars == <<data, attempt, fetches, sleeps, live_alerts>>

emailVars == <<recipient_email, anomalies, token, email_calls, creds_requests,
               messages_built, messages_sent, email_sent>>

vars == <<pc, caller, response, exception, detectVars, entryVars, reportVars, emailVars>>

\* ------------------------------------------------ anomaly_detection.py
\* row['timestamp'].isoformat(): the date and the hour of day, as printed.
isoformat(ts) == [date |-> ts \div 24, hour |-> ts % 24]

\* Prophet.fit raises ValueError on a history of fewer than 2 rows.
MinFitRows == 2

RECURSIVE InsertSorted(_, _)
InsertSorted(s, x) ==
    IF s = <<>> THEN <<x>>
    ELSE IF x < Head(s) THEN <<x>> \o s
    ELSE <<Head(s)>> \o InsertSorted(Tail(s), x)

RECURSIVE SortValues(_)
SortValues(s) ==
    IF s = <<>> THEN <<>>
    ELSE InsertSorted(SortValues(SubSeq(s, 1, Len(s) - 1)), s[Len(s)])

\* prophet_df = df[['timestamp', 'traffic_volume']].rename(...): the ds column.
ProphetDs(table) == [i \in 1 .. Len(table) |-> table[i].timestamp]

\* model.predict(prophet_df): Prophet sorts the frame by ds and resets its
\* index before predicting, so position k of the forecast is the forecast of
\* the k-th smallest timestamp.
Predict(m, table) ==
    LET ds == SortValues(ProphetDs(table))
    IN [k \in 1 .. Len(table) |-> m[ds[k]]]

\* df['yhat_lower'] = forecast['yhat_lower']: aligned on the index label, and
\* both frames carry the labels 0..n-1.
MergeColumn(fc, field) == [i \in 1 .. Len(fc) |-> fc[i][field]]

\* (df['traffic_volume'] < df['yhat_lower']) | (df['traffic_volume'] > df['yhat_upper'])
TemporalFlag(volume, lower, upper) == volume < lower \/ volume > upper

\* Mutant of IsAnomalousRow: the two signals merged with AND.
IsAnomalousRowBothRequired(temporal, iso) == temporal = TRUE /\ iso = -1

\* (df['temporal_anomaly'] == True) | (df['iso_anomaly'] == -1)
IsAnomalousRow(temporal, iso) == temporal = TRUE \/ iso = -1

RECURSIVE FilterPositions(_, _, _)
FilterPositions(temporal, iso, i) ==
    IF i > Len(temporal) THEN <<>>
    ELSE (IF IsAnomalousRow(temporal[i], iso[i]) THEN <<i>> ELSE <<>>)
         \o FilterPositions(temporal, iso, i + 1)

RECURSIVE Reverse(_)
Reverse(s) == IF s = <<>> THEN <<>> ELSE Append(Reverse(Tail(s)), Head(s))

\* Mutant of FilterRows: the kept rows listed latest position first.
FilterRowsLatestFirst(temporal, iso) == Reverse(FilterPositions(temporal, iso, 1))

\* anomalies_df = df[...]: boolean-mask selection keeps the frame's row order.
FilterRows(temporal, iso) == FilterPositions(temporal, iso, 1)

\* "Temporal Shift" if row['temporal_anomaly'] else "Unusual Traffic Spike/Drop"
AnomalyType(temporal) ==
    IF temporal THEN "Temporal Shift" ELSE "Unusual Traffic Spike/Drop"

\* Mutant of AnomalyRecord: the outlier label decides the type first.
AnomalyRecordOutlierFirst(i) ==
    [base_station_id |-> df[i].cell_id,
     anomaly_type    |-> IF iso_anomaly[i] = -1 THEN "Unusual Traffic Spike/Drop"
                         ELSE "Temporal Shift",
     timestamp       |-> isoformat(df[i].timestamp),
     severity        |-> "high",
     details         |-> [observed |-> df[i].traffic_volume,
                          lower    |-> yhat_lower[i],
                          upper    |-> yhat_upper[i]]]

\* The dict appended for the row at position i of df.
AnomalyRecord(i) ==
    [base_station_id |-> df[i].cell_id,
     anomaly_type    |-> AnomalyType(temporal_anomaly[i]),
     timestamp       |-> isoformat(df[i].timestamp),
     severity        |-> "high",
     details         |-> [observed |-> df[i].traffic_volume,
                          lower    |-> yhat_lower[i],
                          upper    |-> yhat_upper[i]]]

\* The standardized feature vector of a row: ['traffic_volume', 'hour'].
Features(row) == <<row.traffic_volume, row.hour>>

\* The labelings fit_predict can return: one label per row, and rows with the
\* same feature vector get the same label.
IsoLabelings(table) ==
    {l \in [1 .. Len(table) -> IsoLabels] :
        \A i, j \in 1 .. Len(table) :
            Features(table[i]) = Features(table[j]) => l[i] = l[j]}

TimesIn(table) == {table[i].timestamp : i \in 1 .. Len(table)}

\* model.fit(prophet_df), line 24: raises on a degenerate history, else
\* yields a model giving every timestamp of the history an interval.
ProphetFit ==
    /\ pc = "detect_anomalies"
    /\ Len(df) >= MinFitRows
    /\ \E m \in [TimesIn(df) -> Intervals] : model' = m
    /\ pc' = "predict"
    /\ UNCHANGED <<caller, response, exception, entryVars, reportVars, emailVars>>
    /\ UNCHANGED <<df, forecast, yhat_lower, yhat_upper, temporal_anomaly,
                   iso_anomaly, anomalies_df, anomaly_list>>

ProphetFitRaises ==
    /\ pc = "detect_anomalies"
    /\ Len(df) < MinFitRows
    /\ pc' = "detect_raised"
    /\ exception' = "ValueError"
    /\ UNCHANGED <<caller, response, entryVars, reportVars, emailVars>>
    /\ UNCHANGED detectVars

\* Lines 25-31: predict, copy the three forecast columns, flag the rows.
PredictAndFlag ==
    /\ pc = "predict"
    /\ LET fc == Predict(model, df)
           lo == MergeColumn(fc, "lower")
           hi == MergeColumn(fc, "upper")
       IN /\ forecast' = fc
          /\ yhat_lower' = lo
          /\ yhat_upper' = hi
          /\ temporal_anomaly' =
                 [i \in 1 .. Len(df) |-> TemporalFlag(df[i].traffic_volume, lo[i], hi[i])]
    /\ pc' = "iso_forest"
    /\ UNCHANGED <<caller, response, exception, entryVars, reportVars, emailVars>>
    /\ UNCHANGED <<df, model, iso_anomaly, anomalies_df, anomaly_list>>

\* Lines 34-38: scale the features, fit the forest, label every row.
IsolationForestFitPredict ==
    /\ pc = "iso_forest"
    /\ \E l \in IsoLabelings(df) : iso_anomaly' = l
    /\ pc' = "combine"
    /\ UNCHANGED <<caller, response, exception, entryVars, reportVars, emailVars>>
    /\ UNCHANGED <<df, model, forecast, yhat_lower, yhat_upper, temporal_anomaly,
                   anomalies_df, anomaly_list>>

\* Line 41 and line 44.
CombineAnomalies ==
    /\ pc = "combine"
    /\ anomalies_df' = FilterRows(temporal_anomaly, iso_anomaly)
    /\ anomaly_list' = <<>>
    /\ pc' = "format"
    /\ UNCHANGED <<caller, response, exception, entryVars, reportVars, emailVars>>
    /\ UNCHANGED <<df, model, forecast, yhat_lower, yhat_upper, temporal_anomaly,
                   iso_anomaly>>

\* Lines 45-53: one iteration of `for _, row in anomalies_df.iterrows()`.
FormatRow ==
    /\ pc = "format"
    /\ Len(anomaly_list) < Len(anomalies_df)
    /\ anomaly_list' = Append(anomaly_list, AnomalyRecord(anomalies_df[Len(anomaly_list) + 1]))
    /\ UNCHANGED <<caller, response, exception, entryVars, reportVars, emailVars>>
    /\ UNCHANGED <<pc, df, model, forecast, yhat_lower, yhat_upper, temporal_anomaly,
                   iso_anomaly, anomalies_df>>

\* Line 55.
ReturnAnomalies ==
    /\ pc = "format"
    /\ Len(anomaly_list) = Len(anomalies_df)
    /\ pc' = "detect_returned"
    /\ UNCHANGED <<caller, response, exception, entryVars, reportVars, emailVars>>
    /\ UNCHANGED detectVars

\* ------------------------------------- server.py analyze_traffic, data_upload.py
\* Longest uploaded table and widest uploaded header.
MaxUploadRows == 2
MaxColumns == 3

\* A column name: its text and whether whitespace surrounds it.
ColumnName(text, padded) == [text |-> text, padded |-> padded]

\* df.columns.str.strip()
Strip(name) == [name EXCEPT !.padded = FALSE]

\* df.rename(columns=column_mapping): exact, case-sensitive keys.
Rename(name) ==
    IF name = ColumnName("Time", FALSE) THEN ColumnName("timestamp", FALSE)
    ELSE IF name = ColumnName("Cell_ID", FALSE) THEN ColumnName("cell_id", FALSE)
    ELSE IF name = ColumnName("Total _Traffic(GigaBytes)", FALSE)
         THEN ColumnName("traffic_volume", FALSE)
    ELSE name

\* Lines 72-78 of server.py, 41-47 of data_upload.py.
StandardizeColumns(header) == {Rename(Strip(n)) : n \in header}

required_columns ==
    {ColumnName("timestamp", FALSE), ColumnName("cell_id", FALSE),
     ColumnName("traffic_volume", FALSE)}

\* Mutant of HasRequiredColumns: any() in place of all().
HasSomeRequiredColumn(cols) == \E col \in required_columns : col \in cols

\* all(col in df.columns for col in required_columns)
HasRequiredColumns(cols) == \A col \in required_columns : col \in cols

\* The column names uploads are drawn from: per canonical column its own
\* name, its accepted source name, and a look-alike the mapping does not know.
ColumnPool ==
    {ColumnName("timestamp", FALSE), ColumnName("Time", TRUE), ColumnName("time", FALSE),
     ColumnName("cell_id", TRUE), ColumnName("Cell_ID", FALSE), ColumnName("CellID", FALSE),
     ColumnName("traffic_volume", FALSE), ColumnName("Total _Traffic(GigaBytes)", TRUE),
     ColumnName("Total_Traffic(GigaBytes)", FALSE)}

Headers == {h \in SUBSET ColumnPool : Cardinality(h) <= MaxColumns}

\* A raw timestamp cell: a date and an hour as written in the file; an hour
\* outside 0..23 stands for text pd.to_datetime cannot parse.
RawTimes == {[date |-> 0, hour |-> 0], [date |-> 0, hour |-> 1], [date |-> 0, hour |-> 99]}

RawRecords == [timestamp : RawTimes, cell_id : {"A"}, traffic_volume : Volumes]

UploadTables == SeqsUpTo(RawRecords, MaxUploadRows)

Parseable(raw) == raw.hour \in 0 .. 23

\* pd.to_datetime on one cell.
to_datetime(raw) == raw.date * 24 + raw.hour

\* preprocess_data(df), lines 11-14.
preprocess_data(table) ==
    [i \in 1 .. Len(table) |->
        NormalizedRecord(to_datetime(table[i].timestamp), table[i].cell_id,
                         table[i].traffic_volume)]

NoFile == [present |-> FALSE, filename |-> "", readable |-> "neither",
           header |-> {}, table |-> <<>>]

\* readable: "csv" (pd.read_csv succeeds), "json" (only pd.read_json
\* succeeds), "neither" (both raise).
Files ==
    {NoFile}
    \cup {[NoFile EXCEPT !.present = TRUE]}
    \cup {[NoFile EXCEPT !.present = TRUE, !.filename = "traffic.dat"]}
    \cup [present : {TRUE}, filename : {"traffic.csv"}, readable : {"csv", "json"},
          header : Headers, table : UploadTables]

NoResponse == [status |-> 0, body |-> "", anomalies |-> <<>>, chartData |-> <<>>]

ErrorResponse(status, text) == [NoResponse EXCEPT !.status = status, !.body = text]

\* processed_df[['timestamp', 'traffic_volume']].to_dict(orient='records'),
\* timestamps converted with isoformat().
ChartData(table) ==
    [i \in 1 .. Len(table) |->
        [timestamp |-> isoformat(table[i].timestamp),
         traffic_volume |-> table[i].traffic_volume]]

\* server.py lines 52-53.
AnalyzeNoFilePart ==
    /\ pc = "analyze_traffic"
    /\ ~file.present
    /\ response' = ErrorResponse(400, "No file part")
    /\ pc' = "responded"
    /\ UNCHANGED <<caller, exception, detectVars, entryVars, reportVars, emailVars>>

\* server.py lines 55-57.
AnalyzeNoSelectedFile ==
    /\ pc = "analyze_traffic"
    /\ file.present
    /\ file.filename = ""
    /\ response' = ErrorResponse(400, "No selected file")
    /\ pc' = "responded"
    /\ UNCHANGED <<caller, exception, detectVars, entryVars, reportVars, emailVars>>

\* server.py lines 66-69: pd.read_csv raises.
AnalyzeReadError ==
    /\ pc = "analyze_traffic"
    /\ file.present
    /\ file.filename # ""
    /\ file.readable # "csv"
    /\ response' = ErrorResponse(400, "Error reading file")
    /\ pc' = "responded"
    /\ UNCHANGED <<caller, exception, detectVars, entryVars, reportVars, emailVars>>

\* server.py lines 67-78: read the file, strip and rename the columns.
AnalyzeRead ==
    /\ pc = "analyze_traffic"
    /\ file.present
    /\ file.filename # ""
    /\ file.readable = "csv"
    /\ columns' = StandardizeColumns(file.header)
    /\ pc' = "analyze_validate"
    /\ UNCHANGED <<caller, response, exception, detectVars, reportVars, emailVars>>
    /\ UNCHANGED <<file, processed_df, calls, upload_result, st_errors>>

\* server.py lines 80-82.
AnalyzeMissingColumns ==
    /\ pc = "analyze_validate"
    /\ ~HasRequiredColumns(columns)
    /\ response' = ErrorResponse(400, "Dataset must contain the required columns")
    /\ pc' = "responded"
    /\ UNCHANGED <<caller, exception, detectVars, entryVars, reportVars, emailVars>>

AnalyzeValidated ==
    /\ pc = "analyze_validate"
    /\ HasRequiredColumns(columns)
    /\ pc' = "preprocess_data"
    /\ UNCHANGED <<caller, response, exception, detectVars, entryVars, reportVars, emailVars>>

\* data_upload.py lines 13 and 60.
UploadNoFile ==
    /\ pc = "handle_upload"
    /\ ~file.present
    /\ upload_result' = "None"
    /\ pc' = "app_done"
    /\ UNCHANGED <<caller, response, exception, detectVars, reportVars, emailVars>>
    /\ UNCHANGED <<file, columns, processed_df, calls, st_errors>>

\* data_upload.py lines 27-38: read_csv raises, then read_json raises.
UploadReadError ==
    /\ pc = "handle_upload"
    /\ file.present
    /\ file.readable = "neither"
    /\ st_errors' = st_errors + 3
    /\ upload_result' = "None"
    /\ pc' = "app_done"
    /\ UNCHANGED <<caller, response, exception, detectVars, reportVars, emailVars>>
    /\ UNCHANGED <<file, columns, processed_df, calls>>

\* data_upload.py lines 27-47: read as CSV or else as JSON, strip, rename.
UploadRead ==
    /\ pc = "handle_upload"
    /\ file.present
    /\ file.readable \in {"csv", "json"}
    /\ columns' = StandardizeColumns(file.header)
    /\ pc' = "upload_validate"
    /\ UNCHANGED <<caller, response, exception, detectVars, reportVars, emailVars>>
    /\ UNCHANGED <<file, processed_df, calls, upload_result, st_errors>>

\* data_upload.py lines 50-55.
UploadMissingColumns ==
    /\ pc = "upload_validate"
    /\ ~HasRequiredColumns(columns)
    /\ st_errors' = st_errors + 1
    /\ upload_result' = "None"
    /\ pc' = "app_done"
    /\ UNCHANGED <<caller, response, exception, detectVars, reportVars, emailVars>>
    /\ UNCHANGED <<file, columns, processed_df, calls>>

\* data_upload.py lines 57-58, app.py lines 12-14.
UploadValidated ==
    /\ pc = "upload_validate"
    /\ HasRequiredColumns(columns)
    /\ upload_result' = "df"
    /\ pc' = "preprocess_data"
    /\ UNCHANGED <<caller, response, exception, detectVars, reportVars, emailVars>>
    /\ UNCHANGED <<file, columns, processed_df, calls, st_errors>>

\* processed_df = preprocess_data(df.copy()): server.py line 84, app.py line 17.
PreprocessData ==
    /\ pc = "preprocess_data"
    /\ \A i \in 1 .. Len(file.table) : Parseable(file.table[i].timestamp)
    /\ calls' = calls \cup {"preprocess_data"}
    /\ processed_df' = preprocess_data(file.table)
    /\ pc' = "call_detect"
    /\ UNCHANGED <<caller, response, exception, detectVars, reportVars, emailVars>>
    /\ UNCHANGED <<file, columns, upload_result, st_errors>>

\* pd.to_datetime raises on a cell it cannot parse (line 11).
PreprocessDataRaises ==
    /\ pc = "preprocess_data"
    /\ \E i \in 1 .. Len(file.table) : ~Parseable(file.table[i].timestamp)
    /\ calls' = calls \cup {"preprocess_data"}
    /\ pc' = "preprocess_raised"
    /\ exception' = "ParserError"
    /\ UNCHANGED <<caller, response, detectVars, reportVars, emailVars>>
    /\ UNCHANGED <<file, columns, processed_df, upload_result, st_errors>>

\* anomalies = detect_anomalies(processed_df.copy()): server.py line 85,
\* app.py line 18.
CallDetectAnomalies ==
    /\ pc = "call_detect"
    /\ calls' = calls \cup {"detect_anomalies"}
    /\ df' = processed_df
    /\ pc' = "detect_anomalies"
    /\ UNCHANGED <<caller, response, exception, reportVars, emailVars>>
    /\ UNCHANGED <<file, columns, processed_df, upload_result, st_errors>>
    /\ UNCHANGED <<model, forecast, yhat_lower, yhat_upper, temporal_anomaly,
                   iso_anomaly, anomalies_df, anomaly_list>>

\* server.py lines 88-97.
AnalyzeRespond ==
    /\ pc = "detect_returned"
    /\ caller = "analyze_traffic"
    /\ response' = [status |-> 200, body |-> "result", anomalies |-> anomaly_list,
                    chartData |-> ChartData(processed_df)]
    /\ pc' = "responded"
    /\ UNCHANGED <<caller, exception, detectVars, entryVars, reportVars, emailVars>>

\* app.py lines 21-29: the alerts and the line chart are shown; with a
\* non-empty anomaly list processed_df['anomaly'] raises KeyError.
AppRender ==
    /\ pc = "detect_returned"
    /\ caller = "app"
    /\ pc' = IF anomaly_list # <<>> THEN "crashed" ELSE "app_done"
    /\ exception' = IF anomaly_list # <<>> THEN "KeyError" ELSE exception
    /\ UNCHANGED <<caller, response, detectVars, entryVars, reportVars, emailVars>>

\* Neither entry point catches what preprocess_data or detect_anomalies
\* raise: the request (the script run) ends with the exception; Flask answers 500.
EntryUncaught ==
    /\ pc \in {"preprocess_raised", "detect_raised"}
    /\ caller \in {"analyze_traffic", "app"}
    /\ response' = IF caller = "analyze_traffic"
                   THEN ErrorResponse(500, "uncaught exception") ELSE response
    /\ pc' = "crashed"
    /\ UNCHANGED <<caller, exception, detectVars, entryVars, reportVars, emailVars>>

\* ------------------------------------------------------------- alerting.py
\* Longest alert list.
MaxAlerts == 2

\* The alert dicts lists are drawn from.
AlertPool ==
    {[base_station_id |-> "A", anomaly_type |-> "Temporal Shift",
      timestamp |-> isoformat(0), severity |-> "high"],
     [base_station_id |-> "B", anomaly_type |-> "Unusual Traffic Spike/Drop",
      timestamp |-> isoformat(1), severity |-> "high"]}

AlertLists == SeqsUpTo(AlertPool, MaxAlerts)

Recipients == {"noc@example.com", "ops@example.com"}

\* token.json: absent, holding valid credentials, holding expired credentials
\* with a refresh token, or holding credentials that are neither.
TokenStates == {"missing", "valid", "expired", "invalid"}

\* The names alerting.py binds at module level (lines 1-7, 10, 12, 32).
AlertingNames ==
    {"os", "base64", "MIMEText", "Credentials", "InstalledAppFlow", "build",
     "HttpError", "SCOPES", "get_credentials", "send_email_alert"}

\* Mutant of NothingToSend: the early return is missing.
NothingToSendNever(list) == FALSE

\* `if not anomalies: return`, lines 36-37.
NothingToSend(list) == list = <<>>

EmailNothingToSend ==
    /\ pc = "send_email_alert"
    /\ NothingToSend(anomalies)
    /\ email_sent' = "None"
    /\ pc' = "email_returned"
    /\ UNCHANGED <<caller, response, exception, detectVars, entryVars, reportVars>>
    /\ UNCHANGED <<recipient_email, anomalies, token, email_calls, creds_requests,
                   messages_built, messages_sent>>

\* creds = get_credentials(), line 39, outside the try block.  Lines 17-30:
\* stored valid credentials are returned as they are; otherwise the OAuth
\* flow runs and, when it succeeds, token.json is rewritten.
GetCredentials ==
    /\ pc = "send_email_alert"
    /\ ~NothingToSend(anomalies)
    /\ token \in {"valid", "missing", "invalid"}
    /\ creds_requests' = creds_requests + 1
    /\ token' = "valid"
    /\ pc' = "build_service"
    /\ UNCHANGED <<caller, response, exception, detectVars, entryVars, reportVars>>
    /\ UNCHANGED <<recipient_email, anomalies, email_calls, messages_built,
                   messages_sent, email_sent>>

\* get_credentials raises: creds.refresh(Request()) on expired credentials
\* (line 22, Request is not a name of the module), or the OAuth flow fails
\* (lines 24-26: no client secrets file, no browser).
GetCredentialsRaises ==
    /\ pc = "send_email_alert"
    /\ ~NothingToSend(anomalies)
    /\ \/ token = "expired" /\ "Request" \notin AlertingNames
       \/ token \in {"missing", "invalid"}
    /\ creds_requests' = creds_requests + 1
    /\ pc' = "email_raised"
    /\ exception' = IF token = "expired" THEN "NameError" ELSE "OAuthFlowError"
    /\ UNCHANGED <<caller, response, detectVars, entryVars, reportVars>>
    /\ UNCHANGED <<recipient_email, anomalies, token, email_calls, messages_built,
                   messages_sent, email_sent>>

\* service = build('gmail', 'v1', credentials=creds), line 41, inside the try:
\* an HttpError is caught (lines 65-67), any other exception is not.
BuildService ==
    /\ pc = "build_service"
    /\ \E outcome \in {"ok", "HttpError", "OtherError"} :
          /\ pc' = CASE outcome = "ok" -> "compose"
                     [] outcome = "HttpError" -> "email_returned"
                     [] OTHER -> "email_raised"
          /\ email_sent' = IF outcome = "HttpError" THEN "False" ELSE email_sent
          /\ exception' = IF outcome = "OtherError" THEN "TransportError" ELSE exception
    /\ UNCHANGED <<caller, response, detectVars, entryVars, reportVars>>
    /\ UNCHANGED <<recipient_email, anomalies, token, email_calls, creds_requests,
                   messages_built, messages_sent>>

\* Lines 44-68: message = MIMEMultipart() raises NameError when the name is
\* not bound in the module; otherwise the message is composed and sent, and
\* the send either succeeds, raises HttpError (caught) or raises otherwise.
ComposeAndSend ==
    /\ pc = "compose"
    /\ IF "MIMEMultipart" \notin AlertingNames
       THEN /\ pc' = "email_raised"
            /\ exception' = "NameError"
            /\ UNCHANGED <<messages_built, messages_sent, email_sent>>
       ELSE /\ messages_built' = messages_built + 1
            /\ \E outcome \in {"ok", "HttpError", "OtherError"} :
                  /\ messages_sent' = IF outcome = "ok" THEN messages_sent + 1
                                      ELSE messages_sent
                  /\ email_sent' = CASE outcome = "ok" -> "True"
                                     [] outcome = "HttpError" -> "False"
                                     [] OTHER -> email_sent
                  /\ pc' = IF outcome = "OtherError" THEN "email_raised"
                           ELSE "email_returned"
                  /\ exception' = IF outcome = "OtherError" THEN "TransportError"
                                  ELSE exception
    /\ UNCHANGED <<caller, response, detectVars, entryVars, reportVars>>
    /\ UNCHANGED <<recipient_email, anomalies, token, email_calls, creds_requests>>

\* ------------------------------------------------ server.py send_alert_report
\* for i in range(3), line 25.
MaxAttempts == 3

\* `if i < 2`, line 34.
LastSleepIndex == 2

\* Mutant of ShouldSleep: the delay also follows the last attempt.
ShouldSleepAlways(i) == TRUE

\* if i < 2: time.sleep(3)
ShouldSleep(i) == i < LastSleepIndex

\* request.get_json(): a JSON object, with or without the key 'email', or
\* any other JSON value (null, a list, a string).
Requests ==
    {[is_object |-> FALSE, has_email |-> FALSE, email |-> ""],
     [is_object |-> TRUE, has_email |-> FALSE, email |-> ""],
     [is_object |-> TRUE, has_email |-> TRUE, email |-> ""]}
    \cup {[is_object |-> TRUE, has_email |-> TRUE, email |-> r] : r \in Recipients}

\* data.get('email'): None (here "") when the key is absent.
GetEmail(d) == IF d.has_email THEN d.email ELSE ""

\* `not recipient_email`, line 21.
EmailMissing(email) == email = ""

None == [is_none |-> TRUE, alerts |-> <<>>]

\* response.json(): the JSON value null, or a list of alerts.
Payloads == {None} \cup {[is_none |-> FALSE, alerts |-> l] : l \in AlertLists}

\* Mutant of NoActiveAlerts: the empty list is not filtered out.
NoActiveAlertsIgnored(payload) == FALSE

\* `if not live_alerts`, line 40 (reached when live_alerts is not None).
NoActiveAlerts(payload) == payload.alerts = <<>>

\* `if email_sent`, line 45.
Truthy(result) == result = "True"

\* Line 19 on a body that is no JSON object: data.get raises
\* AttributeError, which nothing catches.
ReportBadBody ==
    /\ pc = "send_alert_report"
    /\ ~data.is_object
    /\ response' = ErrorResponse(500, "uncaught exception")
    /\ pc' = "crashed"
    /\ exception' = "AttributeError"
    /\ UNCHANGED <<caller, detectVars, entryVars, reportVars, emailVars>>

\* Lines 21-22.
ReportEmailRequired ==
    /\ pc = "send_alert_report"
    /\ data.is_object
    /\ EmailMissing(GetEmail(data))
    /\ response' = ErrorResponse(400, "Email is required")
    /\ pc' = "responded"
    /\ UNCHANGED <<caller, exception, detectVars, entryVars, reportVars, emailVars>>

\* Lines 19-25: the recipient is known, the retry loop starts.
ReportStartFetching ==
    /\ pc = "send_alert_report"
    /\ data.is_object
    /\ ~EmailMissing(GetEmail(data))
    /\ recipient_email' = GetEmail(data)
    /\ live_alerts' = None
    /\ attempt' = 0
    /\ pc' = "fetch"
    /\ UNCHANGED <<caller, response, exception, detectVars, entryVars>>
    /\ UNCHANGED <<data, fetches, sleeps>>
    /\ UNCHANGED <<anomalies, token, email_calls, creds_requests, messages_built,
                   messages_sent, email_sent>>

\* Lines 28-31: the request succeeds, the body is decoded, the loop is left.
FetchSucceeds ==
    /\ pc = "fetch"
    /\ fetches' = fetches + 1
    /\ \E payload \in Payloads : live_alerts' = payload
    /\ pc' = "fetched"
    /\ UNCHANGED <<caller, response, exception, detectVars, entryVars, emailVars>>
    /\ UNCHANGED <<data, attempt, sleeps>>

\* Lines 28-35: requests raises a RequestException; the loop sleeps unless
\* this was its last iteration, and goes on to the next i if there is one.
FetchFails ==
    /\ pc = "fetch"
    /\ fetches' = fetches + 1
    /\ sleeps' = IF ShouldSleep(attempt) THEN sleeps + 1 ELSE sleeps
    /\ attempt' = attempt + 1
    /\ pc' = IF attempt + 1 < MaxAttempts THEN "fetch" ELSE "fetched"
    /\ UNCHANGED <<caller, response, exception, detectVars, entryVars, emailVars>>
    /\ UNCHANGED <<data, live_alerts>>

\* Lines 37-38.
ReportFetchFailed ==
    /\ pc = "fetched"
    /\ live_alerts.is_none
    /\ response' = ErrorResponse(500, "Failed to fetch live alerts")
    /\ pc' = "responded"
    /\ UNCHANGED <<caller, exception, detectVars, entryVars, reportVars, emailVars>>

\* Lines 40-41.
ReportNoAlerts ==
    /\ pc = "fetched"
    /\ ~live_alerts.is_none
    /\ NoActiveAlerts(live_alerts)
    /\ response' = [NoResponse EXCEPT !.status = 200, !.body = "No active alerts to report."]
    /\ pc' = "responded"
    /\ UNCHANGED <<caller, exception, detectVars, entryVars, reportVars, emailVars>>

\* Line 43: send_email_alert(recipient_email, live_alerts) is entered.
ReportCallEmail ==
    /\ pc = "fetched"
    /\ ~live_alerts.is_none
    /\ ~NoActiveAlerts(live_alerts)
    /\ anomalies' = live_alerts.alerts
    /\ email_calls' = email_calls + 1
    /\ pc' = "send_email_alert"
    /\ UNCHANGED <<caller, response, exception, detectVars, entryVars, reportVars>>
    /\ UNCHANGED <<recipient_email, token, creds_requests, messages_built,
                   messages_sent, email_sent>>

\* Lines 45-48.
ReportRespond ==
    /\ pc = "email_returned"
    /\ caller = "send_alert_report"
    /\ response' = IF Truthy(email_sent)
                   THEN [NoResponse EXCEPT !.status = 200,
                                           !.body = "Successfully sent alert report"]
                   ELSE ErrorResponse(500, "Failed to send email report.")
    /\ pc' = "responded"
    /\ UNCHANGED <<caller, exception, detectVars, entryVars, reportVars, emailVars>>

\* send_alert_report catches nothing send_email_alert raises.
ReportUncaught ==
    /\ pc = "email_raised"
    /\ caller = "send_alert_report"
    /\ response' = ErrorResponse(500, "uncaught exception")
    /\ pc' = "crashed"
    /\ UNCHANGED <<caller, exception, detectVars, entryVars, reportVars, emailVars>>

\* ------------------------------------------------------------ specifications
DetectIdle ==
    /\ model = <<>>
    /\ forecast = <<>>
    /\ yhat_lower = <<>>
    /\ yhat_upper = <<>>
    /\ temporal_anomaly = <<>>
    /\ iso_anomaly = <<>>
    /\ anomalies_df = <<>>
    /\ anomaly_list = <<>>

EntryIdle ==
    /\ columns = {}
    /\ processed_df = <<>>
    /\ calls = {}
    /\ response = NoResponse
    /\ exception = ""
    /\ upload_result = "pending"
    /\ st_errors = 0

ReportIdle ==
    /\ data = [is_object |-> FALSE, has_email |-> FALSE, email |-> ""]
    /\ attempt = 0
    /\ fetches = 0
    /\ sleeps = 0
    /\ live_alerts = None

EmailIdle ==
    /\ recipient_email = ""
    /\ anomalies = <<>>
    /\ token = "missing"
    /\ email_calls = 0
    /\ creds_requests = 0
    /\ messages_built = 0
    /\ messages_sent = 0
    /\ email_sent = "unset"

\* A call detect_anomalies(table) on any normalized table.
InitDetect ==
    /\ pc = "detect_anomalies"
    /\ caller = "direct"
    /\ df \in Tables
    /\ file = NoFile
    /\ DetectIdle /\ EntryIdle /\ ReportIdle /\ EmailIdle

NextDetect ==
    \/ ProphetFit
    \/ ProphetFitRaises
    \/ PredictAndFlag
    \/ IsolationForestFitPredict
    \/ CombineAnomalies
    \/ FormatRow
    \/ ReturnAnomalies

SpecDetect == InitDetect /\ [][NextDetect]_vars

\* A POST to /api/analyze, or a run of app.py, with any upload.
InitUpload ==
    /\ caller \in {"analyze_traffic", "app"}
    /\ pc = (IF caller = "app" THEN "handle_upload" ELSE "analyze_traffic")
    /\ file \in Files
    /\ caller = "app" => (file.present => file.filename # "")
    /\ df = <<>>
    /\ DetectIdle /\ EntryIdle /\ ReportIdle /\ EmailIdle

NextUpload ==
    \/ AnalyzeNoFilePart
    \/ AnalyzeNoSelectedFile
    \/ AnalyzeReadError
    \/ AnalyzeRead
    \/ AnalyzeMissingColumns
    \/ AnalyzeValidated
    \/ UploadNoFile
    \/ UploadReadError
    \/ UploadRead
    \/ UploadMissingColumns
    \/ UploadValidated
    \/ PreprocessData
    \/ PreprocessDataRaises
    \/ CallDetectAnomalies
    \/ AnalyzeRespond
    \/ AppRender
    \/ EntryUncaught
    \/ NextDetect

SpecUpload == InitUpload /\ [][NextUpload]_vars

\* send_email_alert past its early return.
NextEmailBody ==
    \/ GetCredentials
    \/ GetCredentialsRaises
    \/ BuildService
    \/ ComposeAndSend

NextEmail ==
    \/ EmailNothingToSend
    \/ NextEmailBody

\* A call send_email_alert(recipient_email, anomalies) with any list.
InitEmail ==
    /\ pc = "send_email_alert"
    /\ caller = "direct"
    /\ recipient_email \in Recipients
    /\ anomalies \in AlertLists
    /\ token \in TokenStates
    /\ email_calls = 1
    /\ creds_requests = 0
    /\ messages_built = 0
    /\ messages_sent = 0
    /\ email_sent = "unset"
    /\ df = <<>>
    /\ file = NoFile
    /\ DetectIdle /\ EntryIdle /\ ReportIdle

SpecEmail == InitEmail /\ [][NextEmail]_vars

\* A POST to /api/alerts/send-report with any JSON body.  The early return of
\* send_email_alert (alerting.py lines 36-37) is no step of this
\* specification: line 40 of server.py lets only a non-empty list through.
InitReport ==
    /\ pc = "send_alert_report"
    /\ caller = "send_alert_report"
    /\ data \in Requests
    /\ attempt = 0
    /\ fetches = 0
    /\ sleeps = 0
    /\ live_alerts = None
    /\ recipient_email = ""
    /\ anomalies = <<>>
    /\ token \in TokenStates
    /\ email_calls = 0
    /\ creds_requests = 0
    /\ messages_built = 0
    /\ messages_sent = 0
    /\ email_sent = "unset"
    /\ df = <<>>
    /\ file = NoFile
    /\ DetectIdle /\ EntryIdle

NextReport ==
    \/ ReportBadBody
    \/ ReportEmailRequired
    \/ ReportStartFetching
    \/ FetchSucceeds
    \/ FetchFails
    \/ ReportFetchFailed
    \/ ReportNoAlerts
    \/ ReportCallEmail
    \/ ReportRespond
    \/ ReportUncaught
    \/ NextEmailBody

SpecReport == InitReport /\ [][NextReport]_vars

\* ------------------------------------------------------------------ claims
\* C1: when detect_anomalies has returned, a row has produced a record if and
\* only if its volume is strictly below yhat_lower or strictly above
\* yhat_upper, or its outlier label is -1; a row on or inside the bounds with
\* label +1 has produced none.
C1_RecordIffFlagged ==
    pc = "detect_returned" =>
        \A i \in 1 .. Len(df) :
            LET produced ==
                    \E k \in 1 .. Len(anomaly_list) :
                        /\ anomalies_df[k] = i
                        /\ anomaly_list[k].base_station_id = df[i].cell_id
                        /\ anomaly_list[k].details.observed = df[i].traffic_volume
                temporal ==
                    \/ df[i].traffic_volume < yhat_lower[i]
                    \/ df[i].traffic_volume > yhat_upper[i]
            IN produced <=> (temporal \/ iso_anomaly[i] = -1)

\* A returned pass with a row sitting on its upper bound, labelled +1, that
\* produced nothing, next to a row that produced a record.
C1_Witness ==
    /\ pc = "detect_returned"
    /\ Len(anomaly_list) >= 1
    /\ \E i \in 1 .. Len(df) :
          /\ df[i].traffic_volume = yhat_upper[i]
          /\ iso_anomaly[i] = 1
          /\ \A k \in 1 .. Len(anomalies_df) : anomalies_df[k] # i

\* C2: every returned record is of the temporal-shift type whenever its row's
\* temporal flag fired, also when the outlier label is -1 too, and of the
\* spike/drop type exactly when the flag did not fire and the label is -1.
C2_TemporalTypeHasPriority ==
    pc = "detect_returned" =>
        \A k \in 1 .. Len(anomaly_list) :
            LET i == anomalies_df[k]
                temporal ==
                    \/ df[i].traffic_volume < yhat_lower[i]
                    \/ df[i].traffic_volume > yhat_upper[i]
            IN /\ temporal => anomaly_list[k].anomaly_type = "Temporal Shift"
               /\ anomaly_list[k].anomaly_type = "Unusual Traffic Spike/Drop"
                      <=> (~temporal /\ iso_anomaly[i] = -1)

\* A returned list holding a temporal-shift record of a row both detectors
\* flagged and a spike/drop record.
C2_Witness ==
    /\ pc = "detect_returned"
    /\ \E k \in 1 .. Len(anomaly_list) :
          /\ anomaly_list[k].anomaly_type = "Temporal Shift"
          /\ iso_anomaly[anomalies_df[k]] = -1
    /\ \E k \in 1 .. Len(anomaly_list) :
          anomaly_list[k].anomaly_type = "Unusual Traffic Spike/Drop"

\* C3: the records are those of the anomalous rows, one per row and in the
\* row order of the input: the positions they come from increase strictly,
\* each is an anomalous row whose timestamp and station id the record
\* carries, and the returned list has as many records as rows are anomalous.
C3_InputOrderSubsequence ==
    pc \in {"format", "detect_returned"} =>
        LET anomalous(i) ==
                \/ df[i].traffic_volume < yhat_lower[i]
                \/ df[i].traffic_volume > yhat_upper[i]
                \/ iso_anomaly[i] = -1
        IN /\ Len(anomaly_list) <= Len(anomalies_df)
           /\ \A k \in 1 .. Len(anomaly_list) :
                 /\ anomalies_df[k] \in 1 .. Len(df)
                 /\ anomalous(anomalies_df[k])
                 /\ anomaly_list[k].timestamp = isoformat(df[anomalies_df[k]].timestamp)
                 /\ anomaly_list[k].base_station_id = df[anomalies_df[k]].cell_id
                 /\ \A j \in 1 .. k - 1 : anomalies_df[j] < anomalies_df[k]
           /\ pc = "detect_returned" =>
                 Len(anomaly_list) = Cardinality({i \in 1 .. Len(df) : anomalous(i)})

\* A returned list of two records whose first is later in time than its
\* second, out of a table that also holds a row that is not anomalous.
C3_Witness ==
    /\ pc = "detect_returned"
    /\ Len(anomaly_list) = 2
    /\ Len(df) = 3
    /\ df[anomalies_df[1]].timestamp > df[anomalies_df[2]].timestamp

\* C9: the bounds attached to a row are the fitted model's interval for that
\* row's own timestamp, whatever the row order of the table.
C9_ForecastOfOwnTimestamp ==
    pc \in {"iso_forest", "combine", "format", "detect_returned"} =>
        \A i \in 1 .. Len(df) :
            /\ yhat_lower[i] = model[df[i].timestamp].lower
            /\ yhat_upper[i] = model[df[i].timestamp].upper

\* C6: once the columns are stripped and renamed and one of timestamp,
\* cell_id, traffic_volume is not among them, neither preprocess_data nor
\* detect_anomalies is ever called, no anomalies or chart data are answered,
\* analyze_traffic answers 400 and handle_upload shows an error and returns
\* None.
C6_MissingColumnRejected ==
    LET mapped == pc \notin {"analyze_traffic", "handle_upload"}
                  /\ file.present /\ file.filename # ""
                  /\ file.readable \in (IF caller = "app" THEN {"csv", "json"} ELSE {"csv"})
        missing == \E c \in {"timestamp", "cell_id", "traffic_volume"} :
                       [text |-> c, padded |-> FALSE] \notin columns
    IN (mapped /\ missing) =>
          /\ calls = {}
          /\ response.anomalies = <<>> /\ response.chartData = <<>>
          /\ pc \in {"analyze_validate", "upload_validate", "responded", "app_done"}
          /\ pc = "responded" => response.status = 400
          /\ pc = "app_done" => (upload_result = "None" /\ st_errors >= 1)

\* analyze_traffic has answered 400 to an upload whose volume column carries
\* a name the mapping does not know, the other two columns being there.
C6_Witness ==
    /\ caller = "analyze_traffic"
    /\ pc = "responded"
    /\ response.status = 400
    /\ [text |-> "timestamp", padded |-> FALSE] \in columns
    /\ [text |-> "cell_id", padded |-> FALSE] \in columns
    /\ [text |-> "traffic_volume", padded |-> FALSE] \notin columns
    /\ Len(file.table) >= 1

\* C7: a failing model fit never leaves detect_anomalies as an exception, and
\* never ends the entry point with that exception uncaught.
C7_FitFailureNotRaised ==
    /\ pc # "detect_raised"
    /\ ~(pc = "crashed" /\ exception = "ValueError")

\* C4: at most 3 fetches per request; the loop goes on only while every fetch
\* so far failed; one delay follows each failed fetch that another fetch
\* follows and none follows the third; three failed fetches end in a 500
\* answer.
C4_BoundedRetryThenError ==
    /\ fetches <= 3
    /\ pc = "fetch" => (fetches = attempt /\ sleeps = fetches /\ live_alerts.is_none)
    /\ (pc \notin {"send_alert_report", "fetch"} /\ fetches > 0) => sleeps = fetches - 1
    /\ (pc \notin {"send_alert_report", "fetch"} /\ fetches > attempt) => fetches = attempt + 1
    /\ attempt = 3 =>
          /\ pc \in {"fetched", "responded"}
          /\ email_calls = 0
          /\ pc = "responded" => (response.status = 500 /\ response.anomalies = <<>>)

\* A request answered 500 after three failed fetches and two delays.
C4_Witness ==
    /\ pc = "responded"
    /\ fetches = 3
    /\ attempt = 3
    /\ sleeps = 2
    /\ response.status = 500

C8_EmptyListSendsNothing ==
    anomalies = <<>> =>
        /\ creds_requests = 0
        /\ messages_built = 0
        /\ messages_sent = 0
        /\ exception = ""
        /\ pc \in {"send_email_alert", "email_returned"}
        /\ pc = "email_returned" => email_sent = "None"

\* A call with an empty list that has returned.
C8_Witness ==
    /\ anomalies = <<>>
    /\ pc = "email_returned"
    /\ email_sent = "None"

\* C5: with a non-empty list, send_email_alert never ends by raising: every
\* failure comes back as a status.
C5_FailureIsAStatus ==
    anomalies # <<>> =>
        /\ pc # "email_raised"
        /\ pc = "email_returned" => email_sent \in {"True", "False"}

====
